---- MODULE Spec2Model ----
(***************************************************************************)
(* oci.fyi: the walk over a signature / attestation manifest (getData,     *)
(* readDSSEHeader, parseExtensions) and the page handler around it         *)
(* (handleRef, getSignature, getAttestations, template.md).                *)
(*                                                                         *)
(* Spec     one call of getData(ref): the registry's answers, the manifest *)
(*          and the blobs are drawn as the code asks for them.             *)
(* SpecRef  one call of handleRef(w, ref): remote.Head, the signature      *)
(*          walk, the attestation walk, the template.                      *)
(*                                                                         *)
(* Go ranges over a map in an unspecified order: the annotations of a      *)
(* layer are visited one at a time in any order.  A nil dereference is a   *)
(* run-time panic: the walk ends in "panicked" and returns nothing.        *)
(***************************************************************************)
EXTENDS Integers, Sequences, FiniteSets, TLC

\* Layers of a manifest walked by a direct call of getData.
MaxLayers == 2
\* Layers of each companion manifest under handleRef (two walks per run).
MaxRefLayers == 1

----------------------------------------------------------------------------
\* Strings of the wire contract.

BundleKey == "dev.sigstore.cosign/bundle"
CertKey == "dev.sigstore.cosign/certificate"
PredicateKey == "predicateType"
\* A key the switch of getData has no case for (cosign writes it on every
\* signature layer).
SignatureKey == "dev.cosignproject.cosign/signature"

DSSEMediaType == "application/vnd.dsse.envelope.v1+json"
SimpleSigningMediaType == "application/vnd.dev.cosign.simplesigning.v1+json"
InTotoPayloadType == "application/vnd.in-toto+json"
OtherPayloadType == "application/vnd.other+json"

MediaTypes == {DSSEMediaType, SimpleSigningMediaType}
\* Predicate types a statement header may name, and the one a predicateType
\* annotation may carry.
PredicateTypes == {"https://slsa.dev/provenance/v1", "https://spdx.dev/Document"}
PredicateAnnotations == {"https://slsa.dev/provenance/v1"}

----------------------------------------------------------------------------
\* Errors: the text of the chain, and the causes errors.Is / errors.As still
\* reach (fmt.Errorf keeps them with %w and drops them with %v).

NilErr == [text |-> << >>, chain |-> << >>]
LeafErr(c) == [text |-> <<c>>, chain |-> <<c>>]
ErrorfW(msg, e) == [text |-> <<msg>> \o e.text, chain |-> e.chain]
ErrorfV(msg, e) == [text |-> <<msg>> \o e.text, chain |-> << >>]

\* A nil pointer (no bundle, no certificate, no PEM block, no header); a
\* non-nil pointer to x is <<x>>.
Nil == << >>
Ptr(x) == <<x>>

\* name.Digest{}, whose String() is "".
NoDigest == << >>
\* ref.Context().Digest(h): the fully-qualified content address of hash h.
Repo == "registry/repo"
ContextDigest(h) == <<Repo, h>>
\* String() of a name.Digest.
DigestString(d) == IF d = NoDigest THEN "" ELSE d[1] \o "@" \o d[2]

ManifestHash == "sha256:manifest"
\* The hash of the i-th layer of a manifest.
LayerHash(i) == IF i = 1 THEN "sha256:layer1"
                ELSE IF i = 2 THEN "sha256:layer2"
                ELSE IF i = 3 THEN "sha256:layer3"
                ELSE "sha256:layer4"

----------------------------------------------------------------------------
\* certificate.Extensions and parseExtensions.  A string is the sequence of
\* its bytes; an extension value is a sequence of bytes.

ExtFields == {"Issuer", "GithubWorkflowTrigger", "GithubWorkflowSHA",
              "GithubWorkflowName", "GithubWorkflowRepository",
              "GithubWorkflowRef", "BuildSignerURI", "BuildSignerDigest",
              "RunnerEnvironment", "SourceRepositoryURI",
              "SourceRepositoryDigest", "SourceRepositoryRef",
              "SourceRepositoryIdentifier", "SourceRepositoryOwnerURI",
              "SourceRepositoryOwnerIdentifier", "BuildConfigURI",
              "BuildConfigDigest", "BuildTrigger", "RunInvocationURI",
              "SourceRepositoryVisibilityAtSigning"}

\* certificate.Extensions{}
ZeroExtensions == [f \in ExtFields |-> << >>]

\* The deprecated family: the raw bytes are the string.
LegacyOIDs == {"OIDIssuer", "OIDGitHubWorkflowTrigger", "OIDGitHubWorkflowSHA",
               "OIDGitHubWorkflowName", "OIDGitHubWorkflowRepository",
               "OIDGitHubWorkflowRef"}

LegacyField(oid) ==
    CASE oid = "OIDIssuer" -> "Issuer"
      [] oid = "OIDGitHubWorkflowTrigger" -> "GithubWorkflowTrigger"
      [] oid = "OIDGitHubWorkflowSHA" -> "GithubWorkflowSHA"
      [] oid = "OIDGitHubWorkflowName" -> "GithubWorkflowName"
      [] oid = "OIDGitHubWorkflowRepository" -> "GithubWorkflowRepository"
      [] oid = "OIDGitHubWorkflowRef" -> "GithubWorkflowRef"

\* The current family: the value is a DER string.
CurrentOIDs == {"OIDIssuerV2", "OIDBuildSignerURI", "OIDBuildSignerDigest",
                "OIDRunnerEnvironment", "OIDSourceRepositoryURI",
                "OIDSourceRepositoryDigest", "OIDSourceRepositoryRef",
                "OIDSourceRepositoryIdentifier", "OIDSourceRepositoryOwnerURI",
                "OIDSourceRepositoryOwnerIdentifier", "OIDBuildConfigURI",
                "OIDBuildConfigDigest", "OIDBuildTrigger",
                "OIDRunInvocationURI",
                "OIDSourceRepositoryVisibilityAtSigning"}

CurrentField(oid) ==
    CASE oid = "OIDIssuerV2" -> "Issuer"
      [] oid = "OIDBuildSignerURI" -> "BuildSignerURI"
      [] oid = "OIDBuildSignerDigest" -> "BuildSignerDigest"
      [] oid = "OIDRunnerEnvironment" -> "RunnerEnvironment"
      [] oid = "OIDSourceRepositoryURI" -> "SourceRepositoryURI"
      [] oid = "OIDSourceRepositoryDigest" -> "SourceRepositoryDigest"
      [] oid = "OIDSourceRepositoryRef" -> "SourceRepositoryRef"
      [] oid = "OIDSourceRepositoryIdentifier" -> "SourceRepositoryIdentifier"
      [] oid = "OIDSourceRepositoryOwnerURI" -> "SourceRepositoryOwnerURI"
      [] oid = "OIDSourceRepositoryOwnerIdentifier" -> "SourceRepositoryOwnerIdentifier"
      [] oid = "OIDBuildConfigURI" -> "BuildConfigURI"
      [] oid = "OIDBuildConfigDigest" -> "BuildConfigDigest"
      [] oid = "OIDBuildTrigger" -> "BuildTrigger"
      [] oid = "OIDRunInvocationURI" -> "RunInvocationURI"
      [] oid = "OIDSourceRepositoryVisibilityAtSigning" -> "SourceRepositoryVisibilityAtSigning"

\* An OID parseExtensions has no case for (subject key identifier, ...).
UnknownOID == "OIDSubjectKeyId"

\* DER tag of a UTF8String.
TagUTF8String == 12

\* certificate.ParseDERString(val, &field): the value is one DER string, tag,
\* length, content, with nothing after it.
DERStringOK(val) ==
    /\ Len(val) >= 2
    /\ val[1] = TagUTF8String
    /\ val[2] = Len(val) - 2

DERStringContent(val) == SubSeq(val, 3, Len(val))

\* parseExtension with the deprecated family unwrapped as DER strings too.
parseExtensionAllDER(out, e) ==
    IF e.Id \in LegacyOIDs \cup CurrentOIDs
    THEN IF DERStringOK(e.Value)
         THEN [err |-> NilErr,
               ext |-> [out EXCEPT ![IF e.Id \in LegacyOIDs THEN LegacyField(e.Id)
                                     ELSE CurrentField(e.Id)] = DERStringContent(e.Value)]]
         ELSE [err |-> LeafErr("unexpected error unmarshalling DER-encoded string"),
               ext |-> ZeroExtensions]
    ELSE [err |-> NilErr, ext |-> out]

\* The body of the loop of parseExtensions for one extension e: the record
\* out with the field of e set, or the error and certificate.Extensions{}.
parseExtension(out, e) ==
    IF e.Id \in LegacyOIDs
    THEN [err |-> NilErr, ext |-> [out EXCEPT ![LegacyField(e.Id)] = e.Value]]
    ELSE IF e.Id \in CurrentOIDs
    THEN IF DERStringOK(e.Value)
         THEN [err |-> NilErr,
               ext |-> [out EXCEPT ![CurrentField(e.Id)] = DERStringContent(e.Value)]]
         ELSE [err |-> LeafErr("unexpected error unmarshalling DER-encoded string"),
               ext |-> ZeroExtensions]
    ELSE [err |-> NilErr, ext |-> out]

RECURSIVE parseExtensionsFrom(_, _, _)
parseExtensionsFrom(ext, i, out) ==
    IF i > Len(ext) THEN [err |-> NilErr, ext |-> out]
    ELSE LET r == parseExtension(out, ext[i]) IN
         IF r.err # NilErr THEN r
         ELSE parseExtensionsFrom(ext, i + 1, r.ext)

parseExtensions(ext) == parseExtensionsFrom(ext, 1, ZeroExtensions)

----------------------------------------------------------------------------
\* The annotation values a layer may carry, by what decoding them gives.

\* Bundle annotation values: a JSON object, and one cut short.
ValidBundle == "{\"Payload\":{\"integratedTime\":1700000000,\"logIndex\":7}}"
MalformedBundle == "{\"Payload\":"
BundleValues == {ValidBundle, MalformedBundle}

\* json.Unmarshal into a bundle.RekorBundle.
UnmarshalBundle(v) ==
    IF v = ValidBundle
    THEN [err |-> NilErr,
          bundle |-> Ptr([IntegratedTime |-> 1700000000, LogIndex |-> 7])]
    ELSE [err |-> LeafErr("unexpected end of JSON input"), bundle |-> Nil]

\* Certificate annotation values: no PEM block at all; a PEM block whose
\* bytes are no certificate; a certificate whose extensions decode; a
\* certificate with a current-family extension that is not a DER string.
CertValues == {"not a pem", "pem(garbage)", "pem(cert)", "pem(cert,badext)"}

\* pem.Decode: the block, or nil when the input holds none.
PemDecode(v) == IF v = "not a pem" THEN Nil ELSE Ptr([Bytes |-> v])

GoodExtensions ==
    << [Id |-> "OIDIssuerV2", Value |-> <<TagUTF8String, 2, 104, 116>>],
       [Id |-> "OIDGitHubWorkflowRef", Value |-> <<114>>],
       [Id |-> UnknownOID, Value |-> <<4, 1, 0>>] >>

BadExtensions ==
    << [Id |-> "OIDIssuer", Value |-> <<104>>],
       [Id |-> "OIDSourceRepositoryURI", Value |-> <<TagUTF8String, 5, 104>>] >>

\* x509.ParseCertificate on the bytes of a block.
ParseCertificate(bytes) ==
    IF bytes = "pem(cert)"
    THEN [err |-> NilErr,
          cert |-> Ptr([EmailAddresses |-> <<"dev@example.com">>,
                        URIs |-> << >>,
                        Extensions |-> GoodExtensions])]
    ELSE IF bytes = "pem(cert,badext)"
    THEN [err |-> NilErr,
          cert |-> Ptr([EmailAddresses |-> << >>,
                        URIs |-> <<[Scheme |-> "https", Host |-> "github.com",
                                   Path |-> "/org/repo"]>>,
                        Extensions |-> BadExtensions])]
    ELSE [err |-> LeafErr("x509: malformed certificate"), cert |-> Nil]

----------------------------------------------------------------------------
\* Manifests and blobs the registry may serve.

\* A layer's annotations: the signature key always, each of the three keys
\* getData reads present or not (b, c, p are Nil or a pointer to the value).
Annotations(b, c, p) ==
    [k \in {SignatureKey}
           \cup (IF b = Nil THEN {} ELSE {BundleKey})
           \cup (IF c = Nil THEN {} ELSE {CertKey})
           \cup (IF p = Nil THEN {} ELSE {PredicateKey}) |->
        IF k = BundleKey THEN b[1]
        ELSE IF k = CertKey THEN c[1]
        ELSE IF k = PredicateKey THEN p[1]
        ELSE "MEUCIQ=="]

Opt(S) == {Nil} \cup {Ptr(x) : x \in S}

AnnotationMaps ==
    {Annotations(b, c, p) : b \in Opt(BundleValues), c \in Opt(CertValues),
                            p \in Opt(PredicateAnnotations)}

\* What a layer of a manifest may be, beside its digest.
LayerContents == [MediaType : MediaTypes, Annotations : AnnotationMaps]

\* The manifest with the layers c[1], ..., c[n]: the i-th layer has the i-th
\* hash.
ManifestOf(c) ==
    [i \in DOMAIN c |->
        [MediaType |-> c[i].MediaType, Digest |-> LayerHash(i),
         Annotations |-> c[i].Annotations]]

\* The decompressed content of a layer blob: an outer envelope (or bytes that
\* are no JSON object), whose base64 payload is a statement (header, then the
\* predicate body).
NoPayload == [header |-> "none", body |-> "none", PredicateType |-> ""]
Blobs ==
    {[json |-> FALSE, PayloadType |-> "", Payload |-> NoPayload],
     [json |-> TRUE, PayloadType |-> OtherPayloadType, Payload |-> NoPayload],
     [json |-> TRUE, PayloadType |-> InTotoPayloadType,
      Payload |-> [header |-> "malformed", body |-> "none", PredicateType |-> ""]]}
    \cup
    {[json |-> TRUE, PayloadType |-> InTotoPayloadType,
      Payload |-> [header |-> "ok", body |-> b, PredicateType |-> p]] :
        b \in {"ok", "truncated"}, p \in PredicateTypes}

\* json.NewDecoder(r).Decode(env) into a dsse.Envelope.
DecodeEnvelope(b) ==
    IF b.json
    THEN [err |-> NilErr, env |-> [PayloadType |-> b.PayloadType, Payload |-> b.Payload]]
    ELSE [err |-> LeafErr("invalid character"), env |-> [PayloadType |-> "", Payload |-> NoPayload]]

\* json.NewDecoder(base64.NewDecoder(...)).Decode(out) into an
\* in_toto.StatementHeader: the decoder scans the whole JSON value, the
\* predicate body included, and keeps the header fields.
DecodeStatementHeader(payload) ==
    IF payload.header = "ok" /\ payload.body = "ok"
    THEN [err |-> NilErr, header |-> Ptr([PredicateType |-> payload.PredicateType])]
    ELSE [err |-> LeafErr("unexpected EOF"), header |-> Nil]

----------------------------------------------------------------------------
\* State.

VARIABLES
    pc,        \* where handleRef is; "getData" for a direct call of getData
    wpc,       \* where the walk (getData, readDSSEHeader) is
    image,     \* what remote.Image answered this walk ("" before the call)
    digest,    \* getData's digest
    manifest,  \* the layers of the manifest, once img.Manifest() gave them
    idx,       \* index of the layer the for loop is on
    s,         \* the SignatureData being filled
    todo,      \* annotation keys of the layer the range has not visited yet
    out,       \* getData's out
    ret,       \* what getData returned: digest, data, err
    blob,      \* content of the blob readDSSEHeader is reading
    open,      \* byte streams opened and not closed
    fetched,   \* layers readDSSEHeader was called on, in order: how far the
               \* fetch got (layerErr, layer, contentErr, stream) and the content
    res,       \* handleRef: per companion kind what its walk gave
    page,      \* handleRef: what the template wrote, and the error returned
    call       \* a direct call of parseExtensions, buildConfigURL or
               \* subjectAltName: its arguments, its progress, its result

walkVars == <<wpc, image, digest, manifest, idx, s, todo, out, ret, blob, open, fetched>>
refVars == <<pc, res, page, call>>
vars == <<pc, wpc, image, digest, manifest, idx, s, todo, out, ret, blob, open, fetched, res, page, call>>

Kinds == {"Signatures", "Attestations"}

\* new(SignatureData)
NewSignatureData ==
    [Bundle |-> Nil, Cert |-> Nil, Extensions |-> ZeroExtensions,
     Layer |-> NoDigest, LayerType |-> "", PredicateType |-> ""]

NoRet == [digest |-> NoDigest, data |-> << >>, err |-> NilErr]
NoBlob == [json |-> FALSE, PayloadType |-> "", Payload |-> NoPayload]
NoRes == [called |-> FALSE, digest |-> NoDigest, data |-> << >>, err |-> NilErr,
          image |-> "", layers |-> 0]
NoPage == [written |-> FALSE, err |-> NilErr, sections |-> << >>]
NoCall == [fn |-> ""]

\* The bound on the layers of a manifest in this run.
LayersBound == IF pc = "getData" THEN MaxLayers ELSE MaxRefLayers

\* The state in which a call of getData starts.
WalkStart ==
    /\ wpc = "image"
    /\ image = ""
    /\ digest = NoDigest
    /\ manifest = << >>
    /\ idx = 0
    /\ s = NewSignatureData
    /\ todo = {}
    /\ out = << >>
    /\ ret = NoRet
    /\ blob = NoBlob
    /\ open = 0
    /\ fetched = << >>

Init ==
    /\ pc = "getData"
    /\ WalkStart
    /\ res = [k \in Kinds |-> NoRes]
    /\ page = NoPage
    /\ call = NoCall

\* return d, data, e from getData
Return(d, data, e) ==
    /\ wpc' = "returned"
    /\ ret' = [digest |-> d, data |-> data, err |-> e]

----------------------------------------------------------------------------
\* getData, one step at a time.

\* The body of the switch for one annotation (k, v) of a layer, on the record
\* rec: go on with the record as changed, return an error from getData, or
\* panic.
VisitBundle(rec, v) ==
    LET r == UnmarshalBundle(v) IN
    IF r.err # NilErr
    THEN [to |-> "return", s |-> rec, err |-> ErrorfW("error unmarshalling bundle", r.err)]
    ELSE [to |-> "next", s |-> [rec EXCEPT !.Bundle = r.bundle], err |-> NilErr]

VisitCertificate(rec, v) ==
    LET data == PemDecode(v) IN
    IF data = Nil
    THEN \* data.Bytes on a nil *pem.Block
         [to |-> "panic", s |-> rec, err |-> NilErr]
    ELSE LET c == ParseCertificate(data[1].Bytes) IN
         IF c.err # NilErr
         THEN [to |-> "return", s |-> rec, err |-> ErrorfW("error parsing cert", c.err)]
         ELSE LET x == parseExtensions(c.cert[1].Extensions) IN
              IF x.err # NilErr
              THEN [to |-> "return", s |-> [rec EXCEPT !.Cert = c.cert],
                    err |-> ErrorfW("error parsing extensions", x.err)]
              ELSE [to |-> "next",
                    s |-> [rec EXCEPT !.Cert = c.cert, !.Extensions = x.ext],
                    err |-> NilErr]

VisitPredicateType(rec, v) ==
    [to |-> "next", s |-> [rec EXCEPT !.LayerType = v], err |-> NilErr]

VisitSwitch(rec, k, v) ==
    IF k = BundleKey THEN VisitBundle(rec, v)
    ELSE IF k = CertKey THEN VisitCertificate(rec, v)
    ELSE IF k = PredicateKey THEN VisitPredicateType(rec, v)
    ELSE [to |-> "next", s |-> rec, err |-> NilErr]

\* SetLayerFields without the assignment of the media type: LayerType keeps
\* what the predicateType case wrote.
SetLayerFieldsDigestOnly(rec, l) ==
    [rec EXCEPT !.Layer = ContextDigest(l.Digest)]

\* What getData writes into the record after the range over the annotations.
SetLayerFields(rec, l) ==
    [rec EXCEPT !.LayerType = l.MediaType, !.Layer = ContextDigest(l.Digest)]

\* SetPredicateType writing the header's predicate type to LayerType, as the
\* predicateType case does.
SetPredicateTypeAsLayerType(rec, intoto) ==
    IF intoto # Nil THEN [rec EXCEPT !.LayerType = intoto[1].PredicateType]
    ELSE rec

\* if intoto != nil { s.PredicateType = intoto.PredicateType }
SetPredicateType(rec, intoto) ==
    IF intoto # Nil THEN [rec EXCEPT !.PredicateType = intoto[1].PredicateType]
    ELSE rec

\* The error getData returns when readDSSEHeader failed with e.
HeaderErr(e) == ErrorfW("error reading intoto header", e)

\* img, err := remote.Image(ref)
RemoteImage ==
    /\ wpc = "image"
    /\ \E r \in {"ok", "NotFound", "transport"} :
         /\ image' = r
         /\ IF r = "ok"
            THEN wpc' = "digest" /\ ret' = ret
            ELSE Return(NoDigest, << >>, ErrorfW("error getting remote image", LeafErr(r)))
    /\ UNCHANGED <<digest, manifest, idx, s, todo, out, blob, open, fetched>>
    /\ UNCHANGED refVars

\* d, err := img.Digest(); digest := ref.Context().Digest(d.String())
ImageDigest ==
    /\ wpc = "digest"
    /\ \E ok \in BOOLEAN :
         IF ok
         THEN /\ digest' = ContextDigest(ManifestHash)
              /\ wpc' = "manifest"
              /\ ret' = ret
         ELSE /\ digest' = digest
              /\ Return(NoDigest, << >>, ErrorfV("error getting digest", LeafErr("digest")))
    /\ UNCHANGED <<image, manifest, idx, s, todo, out, blob, open, fetched>>
    /\ UNCHANGED refVars

\* manifest, err := img.Manifest()
ImageManifest ==
    /\ wpc = "manifest"
    /\ \/ /\ \E n \in 0..LayersBound :
               \E c \in [1..n -> LayerContents] : manifest' = ManifestOf(c)
          /\ wpc' = "loop"
          /\ ret' = ret
       \/ /\ manifest' = manifest
          /\ Return(digest, << >>, ErrorfW("error getting manifest", LeafErr("manifest")))
    /\ UNCHANGED <<image, digest, idx, s, todo, out, blob, open, fetched>>
    /\ UNCHANGED refVars

\* NextLayer returning an error for a manifest that has no layer.
NextLayerEmptyIsError ==
    /\ wpc = "loop"
    /\ IF idx < Len(manifest)
       THEN /\ idx' = idx + 1
            /\ s' = NewSignatureData
            /\ todo' = DOMAIN manifest[idx + 1].Annotations
            /\ wpc' = "annot"
            /\ ret' = ret
       ELSE /\ IF Len(manifest) = 0
               THEN Return(digest, << >>, LeafErr("no layers"))
               ELSE Return(digest, out, NilErr)
            /\ UNCHANGED <<idx, s, todo>>
    /\ UNCHANGED <<image, digest, manifest, out, blob, open, fetched>>
    /\ UNCHANGED refVars

\* for _, l := range manifest.Layers { s := new(SignatureData) ... }
\* and, after the last layer, return digest, out, nil
NextLayer ==
    /\ wpc = "loop"
    /\ IF idx < Len(manifest)
       THEN /\ idx' = idx + 1
            /\ s' = NewSignatureData
            /\ todo' = DOMAIN manifest[idx + 1].Annotations
            /\ wpc' = "annot"
            /\ ret' = ret
       ELSE /\ Return(digest, out, NilErr)
            /\ UNCHANGED <<idx, s, todo>>
    /\ UNCHANGED <<image, digest, manifest, out, blob, open, fetched>>
    /\ UNCHANGED refVars

\* for k, v := range l.Annotations { switch k { ... } }: one annotation.
VisitAnnotation ==
    /\ wpc = "annot"
    /\ \E k \in todo :
         LET r == VisitSwitch(s, k, manifest[idx].Annotations[k]) IN
         /\ todo' = todo \ {k}
         /\ IF r.to = "next"
            THEN s' = r.s /\ wpc' = wpc /\ ret' = ret /\ pc' = pc
            ELSE IF r.to = "return"
            THEN s' = r.s /\ Return(digest, << >>, r.err) /\ pc' = pc
            ELSE /\ s' = r.s
                 /\ wpc' = "panicked"
                 /\ ret' = ret
                 /\ pc' = IF pc = "getData" THEN pc ELSE "panicked"
    /\ UNCHANGED <<image, digest, manifest, idx, out, blob, open, fetched>>
    /\ UNCHANGED <<res, page, call>>

\* RecordLayer calling readDSSEHeader for a layer of any media type.
RecordLayerAlwaysReading ==
    /\ wpc = "annot"
    /\ todo = {}
    /\ s' = SetLayerFields(s, manifest[idx])
    /\ wpc' = "layer"
    /\ out' = out
    /\ UNCHANGED <<image, digest, manifest, idx, todo, ret, blob, open, fetched>>
    /\ UNCHANGED refVars

\* s.LayerType = ...; s.Layer = layerDigest; a layer that is no DSSE envelope
\* is appended to out, a DSSE envelope goes to readDSSEHeader.
RecordLayer ==
    /\ wpc = "annot"
    /\ todo = {}
    /\ s' = SetLayerFields(s, manifest[idx])
    /\ IF manifest[idx].MediaType = DSSEMediaType
       THEN wpc' = "layer" /\ out' = out
       ELSE wpc' = "loop" /\ out' = Append(out, s')
    /\ UNCHANGED <<image, digest, manifest, idx, todo, ret, blob, open, fetched>>
    /\ UNCHANGED refVars

\* readDSSEHeader: blob, err := remote.Layer(digest)
RemoteLayer ==
    /\ wpc = "layer"
    /\ \E ok \in BOOLEAN :
         IF ok
         THEN /\ fetched' = Append(fetched, [layer |-> idx, status |-> "layer", blob |-> NoBlob])
              /\ wpc' = "uncompressed"
              /\ ret' = ret
         ELSE /\ fetched' = Append(fetched, [layer |-> idx, status |-> "layerErr", blob |-> NoBlob])
              /\ Return(digest, << >>,
                        HeaderErr(ErrorfW("error getting layer", LeafErr("transport"))))
    /\ UNCHANGED <<image, digest, manifest, idx, s, todo, out, blob, open>>
    /\ UNCHANGED refVars

\* readDSSEHeader: r, err := blob.Uncompressed(); defer r.Close()
Uncompressed ==
    /\ wpc = "uncompressed"
    /\ \/ \E b \in Blobs :
            /\ blob' = b
            /\ fetched' = [fetched EXCEPT ![Len(fetched)] =
                                [layer |-> idx, status |-> "stream", blob |-> b]]
            /\ open' = open + 1
            /\ wpc' = "envelope"
            /\ ret' = ret
       \/ /\ Return(digest, << >>,
                    HeaderErr(ErrorfW("error getting layer content", LeafErr("transport"))))
          /\ fetched' = [fetched EXCEPT ![Len(fetched)].status = "contentErr"]
          /\ UNCHANGED <<blob, open>>
    /\ UNCHANGED <<image, digest, manifest, idx, s, todo, out>>
    /\ UNCHANGED refVars

\* A return of readDSSEHeader that leaves the stream open.
CloseForgotten(n) == n

\* The deferred r.Close() of readDSSEHeader.
Close(n) == n - 1

\* readDSSEHeader: decode the outer envelope, compare its payload type.
ReadEnvelope ==
    /\ wpc = "envelope"
    /\ LET r == DecodeEnvelope(blob) IN
       IF r.err # NilErr
       THEN /\ open' = Close(open)
            /\ Return(digest, << >>,
                      HeaderErr(ErrorfW("error decoding dsse envelope", r.err)))
            /\ UNCHANGED <<s, out>>
       ELSE IF r.env.PayloadType # InTotoPayloadType
       THEN \* return nil, nil
            /\ open' = Close(open)
            /\ s' = SetPredicateType(s, Nil)
            /\ out' = Append(out, s')
            /\ wpc' = "loop"
            /\ ret' = ret
       ELSE /\ wpc' = "statement"
            /\ UNCHANGED <<open, s, out, ret>>
    /\ UNCHANGED <<image, digest, manifest, idx, todo, blob, fetched>>
    /\ UNCHANGED refVars

\* ReadStatement with a statement that does not decode taken as "no header":
\* the layer is appended and the walk goes on.
ReadStatementSkipping ==
    /\ wpc = "statement"
    /\ LET r == DecodeStatementHeader(blob.Payload) IN
       /\ open' = Close(open)
       /\ s' = SetPredicateType(s, r.header)
       /\ out' = Append(out, s')
       /\ wpc' = "loop"
       /\ ret' = ret
    /\ UNCHANGED <<image, digest, manifest, idx, todo, blob, fetched>>
    /\ UNCHANGED refVars

\* readDSSEHeader: decode the statement header from the payload.
ReadStatement ==
    /\ wpc = "statement"
    /\ LET r == DecodeStatementHeader(blob.Payload) IN
       IF r.err # NilErr
       THEN /\ open' = Close(open)
            /\ Return(digest, << >>,
                      HeaderErr(ErrorfW("error decoding intoto statement", r.err)))
            /\ UNCHANGED <<s, out>>
       ELSE /\ open' = Close(open)
            /\ s' = SetPredicateType(s, r.header)
            /\ out' = Append(out, s')
            /\ wpc' = "loop"
            /\ ret' = ret
    /\ UNCHANGED <<image, digest, manifest, idx, todo, blob, fetched>>
    /\ UNCHANGED refVars

Walk ==
    \/ RemoteImage
    \/ ImageDigest
    \/ ImageManifest
    \/ NextLayer
    \/ VisitAnnotation
    \/ RecordLayer
    \/ RemoteLayer
    \/ Uncompressed
    \/ ReadEnvelope
    \/ ReadStatement

Next == Walk

Spec == Init /\ [][Next]_vars

----------------------------------------------------------------------------
\* handleRef.

InitRef ==
    /\ pc = "head"
    /\ wpc = "idle"
    /\ image = ""
    /\ digest = NoDigest
    /\ manifest = << >>
    /\ idx = 0
    /\ s = NewSignatureData
    /\ todo = {}
    /\ out = << >>
    /\ ret = NoRet
    /\ blob = NoBlob
    /\ open = 0
    /\ fetched = << >>
    /\ res = [k \in Kinds |-> NoRes]
    /\ page = NoPage
    /\ call = NoCall

\* The frame of a getData call is gone (idle), or a new one starts (image).
WalkFrame(at) ==
    /\ wpc' = at
    /\ image' = ""
    /\ digest' = NoDigest
    /\ manifest' = << >>
    /\ idx' = 0
    /\ s' = NewSignatureData
    /\ todo' = {}
    /\ out' = << >>
    /\ ret' = NoRet
    /\ blob' = NoBlob
    /\ open' = 0
    /\ fetched' = << >>

\* desc, err := remote.Head(ref, opts...)
RemoteHead ==
    /\ pc = "head"
    /\ \E ok \in BOOLEAN :
         IF ok
         THEN pc' = "getSignature" /\ page' = page
         ELSE /\ pc' = "done"
              /\ page' = [page EXCEPT
                     !.err = ErrorfW("error getting remote image", LeafErr("transport"))]
    /\ UNCHANGED <<res, call>>
    /\ UNCHANGED walkVars

\* getSignature / getAttestations up to the call of getData: the companion
\* tag is derived, or the function returns the error of deriving it.
CompanionTag(kind, at, after) ==
    /\ pc = at
    /\ wpc = "idle"
    /\ \E ok \in BOOLEAN :
         IF ok
         THEN /\ WalkFrame("image")
              /\ UNCHANGED <<pc, res>>
         ELSE /\ res' = [res EXCEPT ![kind] =
                     [called |-> TRUE, digest |-> NoDigest, data |-> << >>,
                      err |-> ErrorfV("error getting signature tag", LeafErr("tag")),
                      image |-> "", layers |-> 0]]
              /\ pc' = after
              /\ UNCHANGED walkVars
    /\ UNCHANGED <<page, call>>

\* sigDigest, sigData, err := getSignature(...); if err != nil { slog.Warn }
WalkReturns(kind, at, after) ==
    /\ pc = at
    /\ wpc = "returned"
    /\ res' = [res EXCEPT ![kind] =
            [called |-> TRUE, digest |-> ret.digest, data |-> ret.data,
             err |-> ret.err, image |-> image, layers |-> Len(manifest)]]
    /\ pc' = after
    /\ WalkFrame("idle")
    /\ UNCHANGED <<page, call>>

SignatureTag == CompanionTag("Signatures", "getSignature", "getAttestations")
SignatureReturns == WalkReturns("Signatures", "getSignature", "getAttestations")
AttestationTag == CompanionTag("Attestations", "getAttestations", "template")
AttestationReturns == WalkReturns("Attestations", "getAttestations", "template")

\* One manifest of the output, as template.md writes it: the manifest link
\* when .Digest is not empty, "This image has no ..." when it is, and one
\* table per element of .Data.
Section(name, r) ==
    [Name |-> name,
     Digest |-> DigestString(r.digest),
     manifestLink |-> DigestString(r.digest) # "",
     none |-> DigestString(r.digest) = "",
     rows |-> r.data]

\* return tmpl.ExecuteTemplate(w, "template.md", &output{...})
ExecuteTemplate ==
    /\ pc = "template"
    /\ \E ok \in BOOLEAN :
         IF ok
         THEN page' = [written |-> TRUE, err |-> NilErr,
                       sections |-> << Section("Signatures", res["Signatures"]),
                                       Section("Attestations", res["Attestations"]) >>]
         ELSE page' = [page EXCEPT !.err = LeafErr("template")]
    /\ pc' = "done"
    /\ UNCHANGED <<res, call>>
    /\ UNCHANGED walkVars

NextRef ==
    \/ RemoteHead
    \/ SignatureTag
    \/ SignatureReturns
    \/ AttestationTag
    \/ AttestationReturns
    \/ ExecuteTemplate
    \/ Walk

SpecRef == InitRef /\ [][NextRef]_vars

----------------------------------------------------------------------------
\* parseExtensions, called on its own.

\* Extensions of a certificate in one call.
MaxExts == 2

\* Extension values: one byte; a DER UTF8String of another byte; a
\* UTF8String header that announces five bytes and carries one.
ExtValues == {<<105>>, <<TagUTF8String, 1, 104>>, <<TagUTF8String, 5, 104>>}

ExtInputs == [Id : LegacyOIDs \cup CurrentOIDs \cup {UnknownOID}, Value : ExtValues]

\* No walk and no handleRef in flight.
NoRequest ==
    /\ wpc = "idle"
    /\ image = ""
    /\ digest = NoDigest
    /\ manifest = << >>
    /\ idx = 0
    /\ s = NewSignatureData
    /\ todo = {}
    /\ out = << >>
    /\ ret = NoRet
    /\ blob = NoBlob
    /\ open = 0
    /\ fetched = << >>
    /\ res = [k \in Kinds |-> NoRes]
    /\ page = NoPage

InitExt ==
    /\ pc = "parseExtensions"
    /\ NoRequest
    /\ \E n \in 0..MaxExts :
         \E x \in [1..n -> ExtInputs] :
            call = [fn |-> "parseExtensions", ext |-> x, i |-> 0,
                    out |-> ZeroExtensions, err |-> NilErr, done |-> FALSE]

\* for _, e := range ext { switch { ... } }: one extension.
ParseExtensionStep ==
    /\ pc = "parseExtensions"
    /\ ~call.done
    /\ call.i < Len(call.ext)
    /\ LET r == parseExtension(call.out, call.ext[call.i + 1]) IN
       call' = [call EXCEPT !.i = call.i + 1, !.out = r.ext, !.err = r.err,
                            !.done = (r.err # NilErr)]
    /\ UNCHANGED <<pc, res, page>>
    /\ UNCHANGED walkVars

\* return out, nil
ParseExtensionsReturn ==
    /\ pc = "parseExtensions"
    /\ ~call.done
    /\ call.i = Len(call.ext)
    /\ call' = [call EXCEPT !.done = TRUE]
    /\ UNCHANGED <<pc, res, page>>
    /\ UNCHANGED walkVars

NextExt ==
    \/ ParseExtensionStep
    \/ ParseExtensionsReturn

SpecExt == InitExt /\ [][NextExt]_vars

----------------------------------------------------------------------------
\* The template functions buildConfigURL and subjectAltName, called on their
\* own. A string is a sequence of tokens; a token is one character or a word
\* that no function here looks into.

\* Tokens of a build-config URI and of a source-repository URI.
MaxURI == 4
MaxRepo == 2
\* Email addresses and URIs of a certificate.
MaxNames == 2

GitHubPrefix == <<"https://github.com">>
URITokens == {"https://github.com", "/", "@", "a"}

\* The strings of at most n tokens.
Strings(n) == UNION {[1..k -> URITokens] : k \in 0..n}

\* strings.HasPrefix
HasPrefix(str, prefix) ==
    /\ Len(str) >= Len(prefix)
    /\ SubSeq(str, 1, Len(prefix)) = prefix

\* strings.TrimPrefix
TrimPrefix(str, prefix) ==
    IF HasPrefix(str, prefix) THEN SubSeq(str, Len(prefix) + 1, Len(str)) ELSE str

\* strings.Index for a separator of one token: 0 where Go returns -1.
RECURSIVE IndexFrom(_, _, _)
IndexFrom(str, sep, i) ==
    IF i > Len(str) THEN 0
    ELSE IF str[i] = sep THEN i
    ELSE IndexFrom(str, sep, i + 1)

\* strings.Cut, the part before the separator.
CutBefore(str, sep) ==
    LET i == IndexFrom(str, sep, 1) IN
    IF i = 0 THEN str ELSE SubSeq(str, 1, i - 1)

RECURSIVE TrimLeft(_, _)
TrimLeft(str, c) ==
    IF str # << >> /\ str[1] = c THEN TrimLeft(Tail(str), c) ELSE str

RECURSIVE TrimRight(_, _)
TrimRight(str, c) ==
    IF str # << >> /\ str[Len(str)] = c
    THEN TrimRight(SubSeq(str, 1, Len(str) - 1), c)
    ELSE str

\* strings.Trim that leaves the trailing tokens in place.
TrimLeading(str, c) == TrimLeft(str, c)

\* strings.Trim with a cutset of one token.
Trim(str, c) == TrimRight(TrimLeft(str, c), c)

\* fmt.Sprintf("%s/blob/%s/%s", repo, digest, path)
SprintfBlob(repo, sha, path) ==
    repo \o <<"/", "blob", "/">> \o sha \o <<"/">> \o path

buildConfigURL(ext) ==
    IF HasPrefix(ext.BuildConfigURI, GitHubPrefix)
    THEN LET path1 == TrimPrefix(ext.BuildConfigURI, ext.SourceRepositoryURI)
             path2 == CutBefore(path1, "@")
             path3 == Trim(path2, "/")
         IN SprintfBlob(ext.SourceRepositoryURI, ext.BuildConfigDigest, path3)
    ELSE ext.BuildConfigURI

\* (*url.URL).String for a URL with a scheme, a host and a path.
URLString(u) ==
    <<u.Scheme, "://", u.Host>> \o (IF u.Path = "" THEN << >> ELSE <<u.Path>>)

\* strings.Join for elements that are strings of tokens.
RECURSIVE Join(_, _)
Join(elems, sep) ==
    IF elems = << >> THEN << >>
    ELSE IF Len(elems) = 1 THEN elems[1]
    ELSE elems[1] \o <<sep>> \o Join(Tail(elems), sep)

\* append(url, cert.EmailAddresses...): the URIs first.
AppendNamesURLFirst(emails, url) == url \o [i \in 1..Len(emails) |-> <<emails[i]>>]

\* append(cert.EmailAddresses, url...)
AppendNames(emails, url) == [i \in 1..Len(emails) |-> <<emails[i]>>] \o url

subjectAltName(cert) ==
    IF cert = Nil THEN << >>
    ELSE LET c == cert[1]
             url == [i \in 1..Len(c.URIs) |-> URLString(c.URIs[i])]
         IN Join(AppendNames(c.EmailAddresses, url), " ")

Emails == {"dev@example.com", "ci@example.com"}
URLs == {[Scheme |-> "https", Host |-> "github.com", Path |-> "/org/repo"],
         [Scheme |-> "spiffe", Host |-> "example.com", Path |-> ""]}

\* The certificates subjectAltName is called with: none, or one with at most
\* MaxNames email addresses and MaxNames URIs.
Certificates ==
    {Nil} \cup
    {Ptr([EmailAddresses |-> e, URIs |-> u, Extensions |-> << >>]) :
        e \in UNION {[1..k -> Emails] : k \in 0..MaxNames},
        u \in UNION {[1..k -> URLs] : k \in 0..MaxNames}}

InitTemplate ==
    /\ pc = "template"
    /\ NoRequest
    /\ \/ \E b \in Strings(MaxURI), r \in Strings(MaxRepo) :
            call = [fn |-> "buildConfigURL",
                    arg |-> [BuildConfigURI |-> b, SourceRepositoryURI |-> r,
                             BuildConfigDigest |-> <<"sha">>],
                    result |-> << >>, done |-> FALSE]
       \/ \E c \in Certificates :
            call = [fn |-> "subjectAltName", arg |-> c,
                    result |-> << >>, done |-> FALSE]

\* {{ buildConfigURL .Extensions }}
BuildConfigURL ==
    /\ call.fn = "buildConfigURL"
    /\ ~call.done
    /\ call' = [call EXCEPT !.result = buildConfigURL(call.arg), !.done = TRUE]
    /\ UNCHANGED <<pc, res, page>>
    /\ UNCHANGED walkVars

\* {{ subjectAltName .Cert }}
SubjectAltName ==
    /\ call.fn = "subjectAltName"
    /\ ~call.done
    /\ call' = [call EXCEPT !.result = subjectAltName(call.arg), !.done = TRUE]
    /\ UNCHANGED <<pc, res, page>>
    /\ UNCHANGED walkVars

NextTemplate ==
    \/ BuildConfigURL
    \/ SubjectAltName

SpecTemplate == InitTemplate /\ [][NextTemplate]_vars

----------------------------------------------------------------------------
\* What the claims speak of.

\* Layer i of the manifest carries annotation k with value v.
LayerHas(i, k, v) ==
    /\ i \in 1..Len(manifest)
    /\ k \in DOMAIN manifest[i].Annotations
    /\ manifest[i].Annotations[k] = v

LayerHasKey(i, k) ==
    /\ i \in 1..Len(manifest)
    /\ k \in DOMAIN manifest[i].Annotations

\* getData returned without an error / with an error and no records.
Succeeded == wpc = "returned" /\ ret.err = NilErr
Failed == wpc = "returned" /\ ret.err # NilErr /\ ret.data = << >>

\* Layer i has a certificate annotation with a PEM block that is no
\* certificate, and a bundle annotation that decodes.
BadCertGoodBundle(i) ==
    /\ LayerHas(i, CertKey, "pem(garbage)")
    /\ LayerHas(i, BundleKey, ValidBundle)

\* C1 as the spec states it: with a layer whose certificate annotation has a
\* PEM block that is no certificate and whose bundle annotation is valid, a
\* walk that returns has succeeded, with one record per layer, that layer's
\* record holding the bundle and no certificate and no extensions.
C1_WalkSucceeds ==
    \A i \in 1..Len(manifest) :
        (BadCertGoodBundle(i) /\ wpc = "returned") =>
            /\ ret.err = NilErr
            /\ Len(ret.data) = Len(manifest)
            /\ ret.data[i].Bundle # Nil
            /\ ret.data[i].Cert = Nil
            /\ ret.data[i].Extensions = ZeroExtensions

\* C2: with a layer whose bundle annotation is not valid JSON the walk does
\* not end otherwise than by returning an error and no records.
C2_BundleErrorNoRecords ==
    \A i \in 1..Len(manifest) :
        LayerHas(i, BundleKey, MalformedBundle) =>
            /\ wpc # "panicked"
            /\ wpc = "returned" => Failed

\* One of the two outcomes of a walk: a digest and a record per layer with no
\* error, or an error with no digest and no records.
TwoOutcomes(r) ==
    \/ r.err = NilErr /\ r.digest # NoDigest /\ Len(r.data) = r.layers
    \/ r.err # NilErr /\ r.digest = NoDigest /\ r.data = << >>

SectionOf(k) == IF k = "Signatures" THEN page.sections[1] ELSE page.sections[2]

\* C3: what a walk hands to handleRef is one of the two outcomes, and a page
\* that shows the manifest of a kind shows a table for every layer of it.
C3_ResultOrError ==
    \A k \in Kinds :
        /\ res[k].called => TwoOutcomes(res[k])
        /\ page.written =>
               (SectionOf(k).manifestLink =>
                    /\ res[k].err = NilErr
                    /\ Len(SectionOf(k).rows) = res[k].layers)

\* C4: after a walk that asked the registry for the companion manifest, the
\* page says "This image has no Signatures / Attestations" only when the
\* registry answered that the manifest does not exist.
C4_NoneOnlyWhenAbsent ==
    \A k \in Kinds :
        (page.written /\ res[k].image # "") =>
            (SectionOf(k).none => res[k].image = "NotFound")

\* C5: a walk that succeeded returns one record per layer of the manifest,
\* the i-th with the digest and the media type of the i-th layer.
C5_RecordPerLayerInOrder ==
    Succeeded =>
        /\ Len(ret.data) = Len(manifest)
        /\ \A i \in 1..Len(manifest) :
               /\ ret.data[i].Layer = ContextDigest(manifest[i].Digest)
               /\ ret.data[i].LayerType = manifest[i].MediaType

\* A walk over two layers succeeded, the first a DSSE envelope and both with
\* a predicateType annotation.
C5_Witness ==
    /\ Succeeded
    /\ Len(manifest) = MaxLayers
    /\ manifest[1].MediaType = DSSEMediaType
    /\ manifest[2].MediaType = SimpleSigningMediaType
    /\ \A i \in 1..Len(manifest) : LayerHasKey(i, PredicateKey)
    /\ ret.data[1].Layer # ret.data[2].Layer

\* C6: the record of a layer that is no DSSE envelope and has a predicateType
\* annotation has the annotation's value as its predicate type.
C6_AnnotationCopied ==
    \A i \in 1..Len(out) :
        (manifest[i].MediaType # DSSEMediaType /\ LayerHasKey(i, PredicateKey)) =>
            out[i].PredicateType = manifest[i].Annotations[PredicateKey]

\* The entry of fetched for layer i, when readDSSEHeader got a stream for it.
ReadOf(i) == {f \in {fetched[j] : j \in 1..Len(fetched)} : f.layer = i /\ f.status = "stream"}

\* readDSSEHeader is running.
InReader == wpc \in {"layer", "uncompressed", "envelope", "statement"}

\* What the predicateType annotation of layer i supplies: its value, or "".
AnnotatedPredicateType(i) ==
    IF LayerHasKey(i, PredicateKey) THEN manifest[i].Annotations[PredicateKey] ELSE ""

\* C7: a DSSE layer whose envelope has another payload type than in-toto
\* raises no error: it gets its record, whose predicate type is what the
\* predicateType annotation supplied, or empty.
C7_OtherPayloadKeepsAnnotation ==
    \A i \in 1..Len(manifest) :
        \A f \in ReadOf(i) :
            (f.blob.json /\ f.blob.PayloadType # InTotoPayloadType
                 /\ ~(InReader /\ idx = i)) =>
                /\ Len(out) >= i
                /\ out[i].PredicateType = AnnotatedPredicateType(i)

\* The statement header of blob b decodes.
HeaderDecodes(b) ==
    /\ b.json
    /\ b.PayloadType = InTotoPayloadType
    /\ DecodeStatementHeader(b.Payload).err = NilErr

\* C8: the record of a DSSE layer whose envelope is an in-toto statement with
\* a header that decodes has the header's predicate type, whatever the
\* predicateType annotation of the layer.
C8_HeaderOverrides ==
    \A i \in 1..Len(manifest) :
        \A f \in ReadOf(i) :
            (manifest[i].MediaType = DSSEMediaType /\ HeaderDecodes(f.blob)
                 /\ ~(InReader /\ idx = i)) =>
                /\ Len(out) >= i
                /\ out[i].PredicateType = f.blob.Payload.PredicateType

\* A walk returned the record of a DSSE layer whose annotation names one
\* predicate type and whose statement header names another.
C8_Witness ==
    /\ Succeeded
    /\ \E i \in 1..Len(manifest) :
           /\ LayerHasKey(i, PredicateKey)
           /\ \E f \in ReadOf(i) :
                  /\ HeaderDecodes(f.blob)
                  /\ f.blob.Payload.PredicateType # manifest[i].Annotations[PredicateKey]
                  /\ ret.data[i].PredicateType = f.blob.Payload.PredicateType

\* readDSSEHeader fails on f: the blob or its content could not be fetched,
\* the outer envelope is malformed, or the header of the in-toto statement is.
ReaderFails(f) ==
    \/ f.status \in {"layerErr", "contentErr"}
    \/ /\ f.status = "stream"
       /\ \/ ~f.blob.json
          \/ f.blob.PayloadType = InTotoPayloadType /\ f.blob.Payload.header = "malformed"

\* C9: once readDSSEHeader has failed on a layer, getData has returned an
\* error and no records.
C9_ReaderFailureAborts ==
    \A j \in 1..Len(fetched) :
        (ReaderFails(fetched[j]) /\ ~(InReader /\ idx = fetched[j].layer)) =>
            /\ Failed
            /\ ret.err.text[1] = "error reading intoto header"

\* The header of the second layer's statement is malformed, the first layer
\* was decoded, and the walk has returned.
C9_Witness ==
    /\ wpc = "returned"
    /\ Len(fetched) >= 1
    /\ fetched[Len(fetched)].layer = 2
    /\ fetched[Len(fetched)].status = "stream"
    /\ fetched[Len(fetched)].blob.Payload.header = "malformed"
    /\ Len(out) = 1
    /\ Failed

\* C10: a certificate annotation with no PEM block does not make the walk
\* panic or stop: the layer's record has no certificate and no extensions.
C10_NoPemDegrades ==
    \A i \in 1..Len(manifest) :
        LayerHas(i, CertKey, "not a pem") =>
            /\ wpc # "panicked"
            /\ i <= Len(out) =>
                   /\ out[i].Cert = Nil
                   /\ out[i].Extensions = ZeroExtensions

\* C11: a certificate with a current-family extension that is no DER string
\* stops the decoding of that certificate's extensions only: the walk is not
\* ended by it, so getData never returns the extension error for that layer.
C11_BadExtensionDoesNotAbort ==
    \A i \in 1..Len(manifest) :
        LayerHas(i, CertKey, "pem(cert,badext)") =>
            ~(/\ wpc = "returned"
              /\ idx = i
              /\ ret.err # NilErr
              /\ ret.err.text[1] = "error parsing extensions")

\* The call of parseExtensions has returned.
ExtDone == call.fn = "parseExtensions" /\ call.done

\* The field an extension is decoded into, "" for an OID with no case.
FieldOf(id) ==
    IF id \in LegacyOIDs THEN LegacyField(id)
    ELSE IF id \in CurrentOIDs THEN CurrentField(id)
    ELSE ""

\* The positions of the extensions decoded into field f, and the last one.
PositionsOf(f) == {j \in 1..Len(call.ext) : FieldOf(call.ext[j].Id) = f}
LastOf(f) == CHOOSE j \in PositionsOf(f) : \A k \in PositionsOf(f) : k <= j

\* The two encodings of the issuer are both in the certificate, both decode,
\* and they give different strings.
BothIssuers ==
    \E j, k \in 1..Len(call.ext) :
        /\ call.ext[j].Id = "OIDIssuer"
        /\ call.ext[k].Id = "OIDIssuerV2"
        /\ DERStringOK(call.ext[k].Value)
        /\ call.ext[j].Value # DERStringContent(call.ext[k].Value)

\* C12: a certificate with both encodings of the issuer, giving different
\* strings, does not lose one of them silently: parseExtensions returns an
\* error for it.
C12_BothIssuersSignalled ==
    (ExtDone /\ BothIssuers) => call.err # NilErr

\* C13: a call of parseExtensions that returned no error has, in every field
\* whose last extension is of the deprecated family, the raw bytes of that
\* extension; a field no extension is decoded into is empty, whatever
\* extensions with other OIDs the certificate has; and an error comes only
\* from a current-family extension that is no DER string.
C13_LegacyRawUnknownIgnored ==
    ExtDone =>
        /\ call.err = NilErr =>
               \A f \in ExtFields :
                   IF PositionsOf(f) = {} THEN call.out[f] = << >>
                   ELSE call.ext[LastOf(f)].Id \in LegacyOIDs =>
                            call.out[f] = call.ext[LastOf(f)].Value
        /\ call.err # NilErr =>
               \E j \in 1..Len(call.ext) :
                   /\ call.ext[j].Id \in CurrentOIDs
                   /\ ~DERStringOK(call.ext[j].Value)

\* parseExtensions returned a record for a certificate with an extension of
\* an OID it has no case for and a deprecated extension whose bytes are a DER
\* string: the field holds tag and length as well.
C13_Witness ==
    /\ ExtDone
    /\ call.err = NilErr
    /\ Len(call.ext) = 2
    /\ call.ext[1].Id = "OIDGitHubWorkflowRef"
    /\ call.ext[1].Value = <<TagUTF8String, 1, 104>>
    /\ call.ext[2].Id = UnknownOID
    /\ call.out["GithubWorkflowRef"] = <<TagUTF8String, 1, 104>>

\* buildConfigURL has returned.
URLDone == call.fn = "buildConfigURL" /\ call.done

\* p is str without its leading and trailing slashes: str is slashes, p,
\* slashes, and p neither starts nor ends with a slash.
IsSlashTrimmed(p, str) ==
    /\ \E a, b \in 0..Len(str) :
           /\ a + Len(p) + b = Len(str)
           /\ \A i \in 1..a : str[i] = "/"
           /\ \A i \in 1..b : str[Len(str) + 1 - i] = "/"
           /\ \A i \in 1..Len(p) : p[i] = str[a + i]
    /\ p # << >> => p[1] # "/" /\ p[Len(p)] # "/"

\* p is str up to its first '@', all of str when it has none.
IsCutAtFirstAt(p, str) ==
    /\ Len(p) <= Len(str)
    /\ \A i \in 1..Len(p) : p[i] = str[i] /\ p[i] # "@"
    /\ Len(p) < Len(str) => str[Len(p) + 1] = "@"

\* p is str with the prefix taken off, str itself when it has no such prefix.
IsStripped(p, str, prefix) ==
    IF /\ Len(prefix) <= Len(str)
       /\ \A i \in 1..Len(prefix) : str[i] = prefix[i]
    THEN str = prefix \o p
    ELSE p = str

\* The contiguous parts of str.
Parts(str) == {SubSeq(str, a, b) : a \in 1..(Len(str) + 1), b \in 0..Len(str)}

\* C14: for a build-config URI that starts with https://github.com,
\* buildConfigURL returns {SourceRepositoryURI}/blob/{BuildConfigDigest}/{path},
\* path being the URI with the source-repository prefix stripped, cut at its
\* first '@' and trimmed of leading and trailing slashes; for any other URI it
\* returns the URI unchanged.
C14_BuildConfigURL ==
    URLDone =>
        LET uri == call.arg.BuildConfigURI
            repo == call.arg.SourceRepositoryURI
        IN IF uri # << >> /\ uri[1] = "https://github.com"
           THEN \E p1 \in Parts(uri) :
                   /\ IsStripped(p1, uri, repo)
                   /\ \E p2 \in Parts(p1) :
                          /\ IsCutAtFirstAt(p2, p1)
                          /\ \E path \in Parts(p2) :
                                 /\ IsSlashTrimmed(path, p2)
                                 /\ call.result = repo \o <<"/", "blob", "/">>
                                                       \o call.arg.BuildConfigDigest
                                                       \o <<"/">> \o path
           ELSE call.result = uri

\* buildConfigURL returned for a URI under its repository with a slash on
\* both sides of the path and an '@' after it.
C14_Witness ==
    /\ URLDone
    /\ call.arg.SourceRepositoryURI = <<"https://github.com">>
    /\ call.arg.BuildConfigURI = <<"https://github.com", "/", "a", "@">>
    /\ call.result = <<"https://github.com", "/", "blob", "/", "sha", "/", "a">>

\* subjectAltName has returned.
SANDone == call.fn = "subjectAltName" /\ call.done

\* The pieces of str between the tokens sep.
RECURSIVE SplitOn(_, _)
SplitOn(str, sep) ==
    LET i == IndexFrom(str, sep, 1) IN
    IF i = 0 THEN <<str>>
    ELSE <<SubSeq(str, 1, i - 1)>> \o SplitOn(SubSeq(str, i + 1, Len(str)), sep)

\* The text of the k-th name of certificate c: its email addresses first,
\* its URIs after them.
NameText(c, k) ==
    IF k <= Len(c.EmailAddresses) THEN <<c.EmailAddresses[k]>>
    ELSE LET u == c.URIs[k - Len(c.EmailAddresses)] IN
         IF u.Path = "" THEN <<u.Scheme, "://", u.Host>>
         ELSE <<u.Scheme, "://", u.Host, u.Path>>

\* C15: subjectAltName returns the empty string for no certificate and for a
\* certificate with no email address and no URI; otherwise its result, split
\* at the spaces, is the email addresses in order followed by the URIs in
\* order, one space between two names and none elsewhere.
C15_SubjectAltName ==
    SANDone =>
        IF call.arg = Nil THEN call.result = << >>
        ELSE LET c == call.arg[1]
                 n == Len(c.EmailAddresses) + Len(c.URIs)
             IN IF n = 0 THEN call.result = << >>
                ELSE /\ Len(SplitOn(call.result, " ")) = n
                     /\ \A k \in 1..n : SplitOn(call.result, " ")[k] = NameText(c, k)

\* subjectAltName returned for a certificate with one email address and two
\* URIs.
C15_Witness ==
    /\ SANDone
    /\ call.arg # Nil
    /\ call.arg[1].EmailAddresses = <<"dev@example.com">>
    /\ Len(call.arg[1].URIs) = 2
    /\ call.arg[1].URIs[1].Scheme = "spiffe"
    /\ call.arg[1].URIs[2].Scheme = "https"
    /\ call.result = <<"dev@example.com", " ", "spiffe", "://", "example.com", " ",
                       "https", "://", "github.com", "/org/repo">>

\* C16: the walk of a manifest that was fetched and has no layer returns at
\* once the digest of the manifest, no record and no error; and the returns
\* that resolving the companion manifest makes on failure all carry an error,
\* so the two are told apart by the error.
C16_EmptyManifestSucceeds ==
    [][/\ (wpc = "loop" /\ Len(manifest) = 0) =>
              /\ wpc' = "returned"
              /\ ret'.err = NilErr
              /\ ret'.data = << >>
              /\ ret'.digest = ContextDigest(ManifestHash)
       /\ (wpc \in {"image", "digest", "manifest"} /\ wpc' = "returned") =>
              ret'.err # NilErr]_vars

\* getData returned for a manifest with no layer.
C16_Witness ==
    /\ Succeeded
    /\ image = "ok"
    /\ Len(manifest) = 0
    /\ idx = 0
    /\ ret.data = << >>
    /\ ret.digest = ContextDigest(ManifestHash)

\* The messages getData puts in front of the error of a stage.
StageMessages ==
    {"error getting remote image", "error getting digest", "error getting manifest",
     "error unmarshalling bundle", "error parsing cert", "error parsing extensions",
     "error reading intoto header"}

\* The decimal text of a layer index.
IndexText(i) ==
    CASE i = 0 -> "0" [] i = 1 -> "1" [] i = 2 -> "2" [] i = 3 -> "3" [] OTHER -> "4"

\* C17: the error of a walk that stopped starts with the message of the stage
\* that failed, and the error of a walk that stopped in a layer has the index
\* of that layer, from 0 or from 1, somewhere in its text.
C17_ErrorNamesStageAndLayer ==
    (wpc = "returned" /\ ret.err # NilErr) =>
        /\ ret.err.text[1] \in StageMessages
        /\ idx >= 1 =>
               \E j \in 1..Len(ret.err.text) :
                   ret.err.text[j] \in {IndexText(idx - 1), IndexText(idx)}

\* C18: a stream is open only while readDSSEHeader decodes the envelope or
\* the statement, and never more than one: after each of its returns, and
\* when the blob or its content could not be had, no stream is open.
C18_StreamClosed ==
    /\ open \in {0, 1}
    /\ wpc \notin {"envelope", "statement"} => open = 0

\* getData returned after two calls of readDSSEHeader that each opened a
\* stream: the first returned without error, the second failed to decode the
\* statement.
C18_Witness ==
    /\ wpc = "returned"
    /\ Len(fetched) = 2
    /\ fetched[1].status = "stream"
    /\ fetched[2].status = "stream"
    /\ ret.err # NilErr
    /\ Len(ret.err.text) >= 2
    /\ ret.err.text[2] = "error decoding intoto statement"
    /\ open = 0

\* The blobs a and b have the same outer envelope and the same statement
\* header; their predicate bodies may differ.
SameHeader(a, b) ==
    /\ a.json = b.json
    /\ a.PayloadType = b.PayloadType
    /\ a.Payload.header = b.Payload.header
    /\ a.Payload.PredicateType = b.Payload.PredicateType

\* C19: two layers of one walk whose blobs have the same envelope and the
\* same statement header get the same outcome from readDSSEHeader: after the
\* first was read without error, the second is too and the two records have
\* the same predicate type, whatever the predicate bodies.
C19_BodyIrrelevant ==
    \A i, j \in 1..Len(fetched) :
        (/\ i < j
         /\ fetched[i].status = "stream"
         /\ fetched[j].status = "stream"
         /\ SameHeader(fetched[i].blob, fetched[j].blob)
         /\ ~(InReader /\ idx = fetched[j].layer)) =>
            /\ Len(out) >= fetched[j].layer
            /\ out[fetched[j].layer].PredicateType = out[fetched[i].layer].PredicateType

\* The orders in which the keys of the annotation map ann can be visited.
Orders(ann) ==
    {o \in [1..Cardinality(DOMAIN ann) -> DOMAIN ann] :
        \A a, b \in DOMAIN o : a # b => o[a] # o[b]}

\* The range over the annotations ann visited in the order o, from record rec.
RECURSIVE VisitInOrder(_, _, _)
VisitInOrder(rec, ann, o) ==
    IF o = << >> THEN [to |-> "next", s |-> rec, err |-> NilErr]
    ELSE LET r == VisitSwitch(rec, Head(o), ann[Head(o)]) IN
         IF r.to # "next" THEN r
         ELSE VisitInOrder(r.s, ann, Tail(o))

\* The messages of the errors getData returns from the range over the
\* annotations.
AnnotationMessages ==
    {"error unmarshalling bundle", "error parsing cert", "error parsing extensions"}

\* C20: what the range over the annotations of a layer ended with (the
\* record, the error returned, a panic) is what every order of visiting the
\* annotations of that layer ends with.
C20_OrderIndependent ==
    idx >= 1 =>
        \A o \in Orders(manifest[idx].Annotations) :
            LET r == VisitInOrder(NewSignatureData, manifest[idx].Annotations, o) IN
            /\ (wpc = "annot" /\ todo = {}) => (r.to = "next" /\ r.s = s)
            /\ (wpc = "panicked") => r.to = "panic"
            /\ (wpc = "returned" /\ ret.err # NilErr
                    /\ ret.err.text[1] \in AnnotationMessages) =>
                   (r.to = "return" /\ r.err = ret.err)

\* Every annotation of layer i decodes without error.
AnnotationsDecode(i) ==
    \A k \in DOMAIN manifest[i].Annotations :
        VisitSwitch(NewSignatureData, k, manifest[i].Annotations[k]).to = "next"

\* The call of readDSSEHeader recorded as f failed.
ReadFailed(f) ==
    \/ f.status \in {"layerErr", "contentErr"}
    \/ /\ f.status = "stream"
       /\ \/ ~f.blob.json
          \/ /\ f.blob.PayloadType = InTotoPayloadType
             /\ DecodeStatementHeader(f.blob.Payload).err # NilErr

\* C21: blobs are fetched in the order of their layers in the manifest, each
\* for a layer of the DSSE media type whose annotations all decoded; every
\* layer before the current one was decoded without error and, if DSSE, read
\* without error; a read that failed is the last fetch of the walk, which has
\* returned at that layer; and the records are those of the layers before
\* the current one, with the current one's at most.
C21_InOrderStopAtFailure ==
    /\ \A a, b \in 1..Len(fetched) : a < b => fetched[a].layer < fetched[b].layer
    /\ \A j \in 1..Len(fetched) :
           LET f == fetched[j] IN
           /\ f.layer \in 1..idx
           /\ manifest[f.layer].MediaType = DSSEMediaType
           /\ AnnotationsDecode(f.layer)
           /\ f.layer = idx => todo = {}
           /\ (ReadFailed(f) /\ ~(InReader /\ idx = f.layer)) =>
                  /\ j = Len(fetched)
                  /\ f.layer = idx
                  /\ Failed
    /\ \A i \in 1..(idx - 1) :
           /\ AnnotationsDecode(i)
           /\ manifest[i].MediaType = DSSEMediaType =>
                  \E f \in ReadOf(i) : ~ReadFailed(f)
    /\ idx >= 1 => Len(out) \in {idx - 1, idx}
    /\ idx = 0 => (out = << >> /\ fetched = << >>)
    /\ wpc \in {"returned", "panicked"} => idx <= Len(manifest)

\* getData returned the error of the first of two DSSE layers, whose blob was
\* opened and did not decode: the blob of the second was not fetched.
C21_Witness ==
    /\ Failed
    /\ Len(manifest) = 2
    /\ manifest[1].MediaType = DSSEMediaType
    /\ manifest[2].MediaType = DSSEMediaType
    /\ AnnotationsDecode(2)
    /\ idx = 1
    /\ Len(fetched) = 1
    /\ fetched[1].status = "stream"
    /\ ReadFailed(fetched[1])

\* handleRef has stopped: it returned, or a walk it called panicked.
Stopped == pc \in {"done", "panicked"}

\* handleRef returned the error of remote.Head.
HeadFailed ==
    /\ pc = "done"
    /\ page.err # NilErr
    /\ page.err.text[1] = "error getting remote image"

\* C22: once handleRef has stopped after remote.Head succeeded, both walks
\* have been called and have returned, whatever the other one ended with; the
\* page, when written, has for each walk the records that walk returned; and
\* the only error handleRef returns then is the error of the template.
C22_WalksIndependent ==
    (Stopped /\ ~HeadFailed) =>
        /\ \A k \in Kinds : res[k].called
        /\ page.written =>
               /\ page.sections[1].rows = res["Signatures"].data
               /\ page.sections[2].rows = res["Attestations"].data
        /\ page.err # NilErr => page.err = LeafErr("template")
        /\ page.err = NilErr => page.written

====
